---- MODULE Spec2Model ----
(***************************************************************************)
(* EtherCAT master: the domain engine (master/domain.c) and the slave      *)
(* request state machine (master/fsm_slave.c).                             *)
(*                                                                         *)
(* The domain is modelled with the fields of ec_domain_t.  The process     *)
(* image, the backup payloads and the send buffers are modelled per FMMU   *)
(* window: every memcpy/memcmp of domain.c and every write of the wire     *)
(* covers whole FMMU windows, so the content of one window is one value.   *)
(* kmalloc() returns memory of arbitrary content: the buffers start at 0   *)
(* and ImageWrite and Wire store any value in any window afterwards.       *)
(***************************************************************************)
EXTENDS Integers, Sequences, FiniteSets, TLC

\* Maximum payload of one datagram (globals.h), scaled down for the model.
EC_MAX_DATA_SIZE == 2

\* Number of FMMU configurations registered with a domain.
MaxFmmus == 3

\* Cap of domain.working_counter_changes (an unsigned int in the code).
MaxChanges == 1

\* Number of requests the application submits to one slave.
MaxRequests == 2

\* Number of further exchanges a CoE, FoE or SoE transfer may need.
MaxSubSteps == 1

SlaveConfigs == {"A", "B"}
EC_DIR_OUTPUT == "OUTPUT"
EC_DIR_INPUT == "INPUT"
Directions == {EC_DIR_OUTPUT, EC_DIR_INPUT}
\* sync manager sizes; EC_MAX_DATA_SIZE + 1 does not fit into any datagram
FmmuSizes == 1..(EC_MAX_DATA_SIZE + 1)
BaseAddresses == {0, 4096}
Bytes == {0, 1}
ExternalBuffers == {"ext", "ext2"}

VARIABLES
    fmmu_configs,               \* domain->fmmu_configs, in list order
    data_size,                  \* domain->data_size
    data,                       \* domain->data: "NULL", "internal" or a caller's buffer
    data_origin,                \* domain->data_origin
    logical_base_address,       \* domain->logical_base_address
    datagram_pairs,             \* domain->datagram_pairs, in list order
    working_counter,            \* domain->working_counter
    expected_working_counter,   \* domain->expected_working_counter
    working_counter_changes,    \* domain->working_counter_changes
    datagrams,                  \* per pair: state and working counter of both siblings
    main_data,                  \* per FMMU window: payload of the main datagram (the image)
    backup_data,                \* per FMMU window: payload of the backup datagram
    send_buffer,                \* per FMMU window: datagram_pair->send_buffer
    freed,                      \* the pointers the domain passed to kfree(), in order
    pc,                         \* "config", "finished" (finish returned 0), "failed",
                                \* "cleared" (ec_domain_clear was called)
    last_op,                    \* the operation called last ("process_again":
                                \* process() called right after process())
    fsm,                        \* ec_fsm_slave_t: state, the four request
                                \* references, the running sub-state-machine
    slave,                      \* ec_slave_t: current_state, config and the
                                \* four request lists
    config_reg_requests,        \* the reg_requests list of the slave configuration
    requests,                   \* the request objects; a reference is an index
    fsm_datagram,               \* fsm->datagram
    step                        \* the call made last on the state machine, the
                                \* wait queues it woke and the datagrams it queued

vars == <<fmmu_configs, data_size, data, data_origin, logical_base_address,
          datagram_pairs, working_counter, expected_working_counter,
          working_counter_changes, datagrams, main_data, backup_data,
          send_buffer, freed, pc, last_op,
          fsm, slave, config_reg_requests, requests, fsm_datagram, step>>

fsm_vars == <<fsm, slave, config_reg_requests, requests, fsm_datagram, step>>

domain_vars == <<fmmu_configs, data_size, data, data_origin,
                 logical_base_address, datagram_pairs, working_counter,
                 expected_working_counter, working_counter_changes,
                 datagrams, main_data, backup_data, send_buffer, freed, pc,
                 last_op>>

-----------------------------------------------------------------------------
(* Helpers *)

RECURSIVE SumSizes(_)
SumSizes(s) == IF s = <<>> THEN 0 ELSE Head(s).data_size + SumSizes(Tail(s))

NoUsed == [d \in Directions |-> 0]

-----------------------------------------------------------------------------
(* ec_domain_init *)

ec_domain_init ==
    /\ fmmu_configs = <<>>
    /\ data_size = 0
    /\ data = "NULL"
    /\ data_origin = "EC_ORIG_INTERNAL"
    /\ logical_base_address = 0
    /\ datagram_pairs = <<>>
    /\ working_counter = 0
    /\ expected_working_counter = 0
    /\ working_counter_changes = 0
    /\ datagrams = <<>>
    /\ main_data = <<>>
    /\ backup_data = <<>>
    /\ send_buffer = <<>>
    /\ freed = <<>>
    /\ pc = "config"
    /\ last_op = "init"

-----------------------------------------------------------------------------
(* Slave request state machine: values *)

\* A null reference; a reference to a request is its index in requests.
NULL == 0
\* The value of a field that was never assigned and is not null.
Uninit == -1

\* The state functions fsm->state points to.
ec_fsm_slave_state_idle == "idle"
ec_fsm_slave_state_ready == "ready"
ec_fsm_slave_state_sdo_request == "sdo_request"
ec_fsm_slave_state_reg_request == "reg_request"
ec_fsm_slave_state_foe_request == "foe_request"
ec_fsm_slave_state_soe_request == "soe_request"

Kinds == {"sdo", "reg", "foe", "soe"}

EC_INT_REQUEST_QUEUED == "QUEUED"
EC_INT_REQUEST_BUSY == "BUSY"
EC_INT_REQUEST_SUCCESS == "SUCCESS"
EC_INT_REQUEST_FAILURE == "FAILURE"

\* slave->current_state is the set of the bits that are set.  The field is
\* written by the scan and the state change machines of the master; the
\* state machine reads it in the ready step, where it is an input.
EC_SLAVE_STATE_INIT == {"INIT"}
EC_SLAVE_STATE_PREOP == {"PREOP"}
EC_SLAVE_STATE_ACK_ERR == {"ACK_ERR"}
ALStates == {EC_SLAVE_STATE_INIT, EC_SLAVE_STATE_PREOP,
             EC_SLAVE_STATE_PREOP \cup EC_SLAVE_STATE_ACK_ERR}

\* Working counters a received datagram of the state machine comes back with.
FsmWcs == {0, 1, 2}

\* The datagram of the state machine.  The working counter and the data of
\* a datagram that is not received are never read and are kept at 0.
FsmDatagram(state, type, content) ==
    [state |-> state, working_counter |-> 0, type |-> type, data |-> content]

\* No bit set: EC_SLAVE_STATE_UNKNOWN.
EC_SLAVE_STATE_UNKNOWN == {}

\* A request of a cleared configuration does not exist any more.
Requests == DOMAIN requests
Alive(r) ==
    \/ ~requests[r].internal
    \/ \E i \in DOMAIN config_reg_requests : config_reg_requests[i] = r

NoStep(op) ==
    [op |-> op, woken |-> {}, queued |-> 0,
     current_state |-> EC_SLAVE_STATE_UNKNOWN]

-----------------------------------------------------------------------------
(* ec_fsm_slave_init *)

\* The request references are not assigned: refs holds what the memory of
\* the slave contained.
ec_fsm_slave_init(refs) ==
    /\ fsm = [state |-> ec_fsm_slave_state_idle,
              sdo_request |-> refs[1],
              reg_request |-> refs[2],
              foe_request |-> refs[3],
              soe_request |-> refs[4],
              sub_left |-> 0]
    /\ fsm_datagram = FsmDatagram("EC_DATAGRAM_INIT", "NONE", 0)
    /\ step = NoStep("init")

\* ec_slave_init and the scan of the slave: no request is pending.
ec_slave_init ==
    /\ slave = [config |-> "sc",
                sdo_requests |-> <<>>,
                reg_requests |-> <<>>,
                foe_requests |-> <<>>,
                soe_requests |-> <<>>]
    /\ config_reg_requests = <<>>
    /\ requests = <<>>

\* The domain specifications leave the state machine alone.
Init ==
    /\ ec_domain_init
    /\ ec_fsm_slave_init(<<NULL, NULL, NULL, NULL>>)
    /\ ec_slave_init

-----------------------------------------------------------------------------
(* FMMU registration *)

\* ec_fmmu_config_init(): the FMMU carries its offset inside the domain
\* until finish() adds the base address.
ec_fmmu_config_init(sc, dir, size) ==
    [sc |-> sc, dir |-> dir, data_size |-> size,
     logical_start_address |-> data_size]

\* "=" written for "+=".
AddedSize_assign(total, size) == size

\* domain->data_size += fmmu->data_size
AddedSize(total, size) == total + size

ec_domain_add_fmmu_config(fmmu) ==
    /\ UNCHANGED fsm_vars
    /\ pc = "config"
    /\ data_size' = AddedSize(data_size, fmmu.data_size)
    /\ fmmu_configs' = Append(fmmu_configs, fmmu)
    /\ last_op' = "add_fmmu"
    /\ UNCHANGED <<data, data_origin, logical_base_address, datagram_pairs,
                   working_counter, expected_working_counter,
                   working_counter_changes, datagrams, main_data,
                   backup_data, send_buffer, freed, pc>>

-----------------------------------------------------------------------------
(* ec_domain_clear_data, ecrt_domain_external_memory *)

\* The buffer is freed although the caller owns it.
ShouldFree_any(origin, ptr) == ptr # "NULL"

\* if (domain->data_origin == EC_ORIG_INTERNAL && domain->data)
ShouldFree(origin, ptr) == origin = "EC_ORIG_INTERNAL" /\ ptr # "NULL"

\* ec_domain_clear_data(): the fields after the call and the kfree() log.
ec_domain_clear_data ==
    [freed |-> IF ShouldFree(data_origin, data)
               THEN Append(freed, data) ELSE freed,
     data |-> "NULL",
     data_origin |-> "EC_ORIG_INTERNAL"]

\* Called by the application at any time of the domain's life; the pairs
\* that finish() created keep the payload pointers they were given.
ecrt_domain_external_memory(mem) ==
    /\ UNCHANGED fsm_vars
    /\ pc # "cleared"
    /\ freed' = ec_domain_clear_data.freed
    /\ data' = mem
    /\ data_origin' = "EC_ORIG_EXTERNAL"
    /\ last_op' = "external_memory"
    /\ UNCHANGED <<fmmu_configs, data_size, logical_base_address,
                   datagram_pairs, working_counter, expected_working_counter,
                   working_counter_changes, datagrams, main_data,
                   backup_data, send_buffer, pc>>

\* ecrt_domain_data()
ecrt_domain_data == data

\* ec_domain_clear(): the destructor frees every pair, then the image.
ec_domain_clear ==
    /\ UNCHANGED fsm_vars
    /\ pc # "cleared"
    /\ datagram_pairs' = <<>>
    /\ datagrams' = <<>>
    /\ freed' = ec_domain_clear_data.freed
    /\ data' = ec_domain_clear_data.data
    /\ data_origin' = ec_domain_clear_data.data_origin
    /\ pc' = "cleared"
    /\ last_op' = "clear"
    /\ UNCHANGED <<fmmu_configs, data_size, logical_base_address,
                   working_counter, expected_working_counter,
                   working_counter_changes, main_data, backup_data,
                   send_buffer>>

-----------------------------------------------------------------------------
(* Datagram pairs *)

\* ec_datagram_pair_init(): command and expected working counter from the
\* used counts.
PairType(used) ==
    IF used[EC_DIR_OUTPUT] > 0 /\ used[EC_DIR_INPUT] > 0 THEN "LRW"
    ELSE IF used[EC_DIR_OUTPUT] > 0 THEN "LWR"
    ELSE "LRD"

PairExpectedWc(used) ==
    IF used[EC_DIR_OUTPUT] > 0 /\ used[EC_DIR_INPUT] > 0
        THEN 3 * used[EC_DIR_OUTPUT] + used[EC_DIR_INPUT]
    ELSE IF used[EC_DIR_OUTPUT] > 0 THEN used[EC_DIR_OUTPUT]
    ELSE used[EC_DIR_INPUT]

ec_datagram_pair_init(logical_offset, dataptr, size, used) ==
    [address |-> logical_offset,
     data_size |-> size,
     data |-> dataptr,
     used |-> used,
     type |-> PairType(used),
     expected_working_counter |-> PairExpectedWc(used)]

\* ec_domain_add_datagram_pair() on the local state st of finish(): the
\* allocation numbered st.fail fails with -ENOMEM and adds nothing.
ec_domain_add_datagram_pair(st, logical_offset, size, dataptr, used) ==
    IF st.allocs + 1 = st.fail
    THEN [st EXCEPT !.allocs = @ + 1, !.ret = "ENOMEM"]
    ELSE LET pair == ec_datagram_pair_init(logical_offset, dataptr, size, used)
         IN [st EXCEPT !.allocs = @ + 1,
                       !.expected_working_counter =
                           @ + pair.expected_working_counter,
                       !.pairs = Append(@, pair)]

-----------------------------------------------------------------------------
(* ec_domain_finish *)

RECURSIVE shall_count(_, _, _)
shall_count(fmmus, cur_fmmu, first_fmmu) ==
    IF first_fmmu = cur_fmmu THEN 1
    ELSE IF /\ fmmus[first_fmmu].sc = fmmus[cur_fmmu].sc
            /\ fmmus[first_fmmu].dir = fmmus[cur_fmmu].dir
         THEN 0
         ELSE shall_count(fmmus, cur_fmmu, first_fmmu + 1)

\* The base address is not added.
CorrectedAddress_nobase(address, base_address) == address

\* fmmu->logical_start_address += base_address (no wrap of the 32 bit
\* address occurs for the addresses of the model)
CorrectedAddress(address, base_address) == address + base_address

\* ">=" written for ">".
DoesNotFit_ge(datagram_size, fmmu_size) ==
    datagram_size + fmmu_size >= EC_MAX_DATA_SIZE

DoesNotFit(datagram_size, fmmu_size) ==
    datagram_size + fmmu_size > EC_MAX_DATA_SIZE

DataLeft(datagram_size) == datagram_size # 0

\* The offset of the next pair is the offset of the closed one.
NextOffset_same(datagram_offset, datagram_size) == datagram_offset

\* datagram_offset += datagram_size
NextOffset(datagram_offset, datagram_size) == datagram_offset + datagram_size

\* One pass of the list_for_each_entry loop of finish(), for the FMMU at
\* position i, on the locals st.
FinishFmmu(st, i, base_address, dataptr) ==
    LET fmmus1 == [st.fmmus EXCEPT ![i].logical_start_address =
                       CorrectedAddress(@, base_address)]
        fmmu == fmmus1[i]
        used1 == IF shall_count(fmmus1, i, st.datagram_first_fmmu) = 1
                 THEN [st.datagram_used EXCEPT ![fmmu.dir] = @ + 1]
                 ELSE st.datagram_used
        st1 == [st EXCEPT !.fmmus = fmmus1, !.datagram_used = used1]
    IN  IF DoesNotFit(st1.datagram_size, fmmu.data_size)
        THEN LET st2 == ec_domain_add_datagram_pair(st1,
                            base_address + st1.datagram_offset,
                            st1.datagram_size,
                            <<dataptr, st1.datagram_offset>>,
                            st1.datagram_used)
             IN IF st2.ret # "OK" THEN st2
                ELSE [st2 EXCEPT
                        !.datagram_offset =
                            NextOffset(@, st1.datagram_size),
                        !.datagram_size = fmmu.data_size,
                        !.datagram_count = @ + 1,
                        !.datagram_used = NoUsed,
                        !.datagram_first_fmmu = i]
        ELSE [st1 EXCEPT !.datagram_size = @ + fmmu.data_size]

RECURSIVE FinishLoop(_, _, _, _)
FinishLoop(st, i, base_address, dataptr) ==
    IF i > Len(st.fmmus) \/ st.ret # "OK" THEN st
    ELSE FinishLoop(FinishFmmu(st, i, base_address, dataptr), i + 1,
                    base_address, dataptr)

\* The result of kmalloc() is not tested.
NoMemory_unchecked(ptr) == FALSE

\* if (!(domain->data = kmalloc(...))) return -ENOMEM
NoMemory(ptr) == ptr = "NULL"

\* The locals and the domain fields finish() works on; fail numbers the
\* allocation that returns NULL (0: none does).
FinishResult(base_address, fail) ==
    LET alloc == data_size # 0 /\ data_origin = "EC_ORIG_INTERNAL"
        image == IF alloc
                 THEN (IF fail = 1 THEN "NULL" ELSE "internal")
                 ELSE data
        st0 == [fmmus |-> fmmu_configs,
                pairs |-> datagram_pairs,
                expected_working_counter |-> expected_working_counter,
                data |-> image,
                datagram_offset |-> 0,
                datagram_size |-> 0,
                datagram_count |-> 0,
                datagram_used |-> NoUsed,
                datagram_first_fmmu |-> 1,
                allocs |-> IF alloc THEN 1 ELSE 0,
                fail |-> fail,
                ret |-> IF alloc /\ NoMemory(image) THEN "ENOMEM" ELSE "OK"]
        st1 == FinishLoop(st0, 1, base_address, st0.data)
    IN  IF st1.ret = "OK" /\ DataLeft(st1.datagram_size)
        THEN LET st2 == ec_domain_add_datagram_pair(st1,
                            base_address + st1.datagram_offset,
                            st1.datagram_size,
                            <<st0.data, st1.datagram_offset>>,
                            st1.datagram_used)
             IN IF st2.ret # "OK" THEN st2
                ELSE [st2 EXCEPT !.datagram_count = @ + 1]
        ELSE st1

UnusedDatagram == [state |-> "EC_DATAGRAM_INIT", working_counter |-> 0]

ec_domain_finish(base_address, fail) ==
    /\ UNCHANGED fsm_vars
    /\ pc = "config"
    /\ LET r == FinishResult(base_address, fail)
       IN /\ logical_base_address' = base_address
          /\ data' = r.data
          /\ fmmu_configs' = r.fmmus
          /\ datagram_pairs' = r.pairs
          /\ expected_working_counter' = r.expected_working_counter
          /\ datagrams' = [p \in 1..Len(r.pairs) |->
                              [main |-> UnusedDatagram,
                               backup |-> UnusedDatagram]]
          /\ pc' = IF r.ret = "OK" THEN "finished" ELSE "failed"
    /\ main_data' = [i \in 1..Len(fmmu_configs) |-> 0]
    /\ backup_data' = [i \in 1..Len(fmmu_configs) |-> 0]
    /\ send_buffer' = [i \in 1..Len(fmmu_configs) |-> 0]
    /\ last_op' = "finish"
    /\ UNCHANGED <<data_size, data_origin, working_counter,
                   working_counter_changes, freed>>

-----------------------------------------------------------------------------
(* Windows *)

Pairs == 1..Len(datagram_pairs)
Fmmus == 1..Len(fmmu_configs)

\* The FMMUs whose bytes lie in the logical window of pair p.
FmmusOfPair(p) ==
    {i \in Fmmus :
        /\ fmmu_configs[i].logical_start_address >= datagram_pairs[p].address
        /\ fmmu_configs[i].logical_start_address + fmmu_configs[i].data_size
              <= datagram_pairs[p].address + datagram_pairs[p].data_size}

\* The copy is left out.
Memcpy_none(dst, src, windows) == dst

\* memcpy(dst, src, size) over the windows of one datagram or FMMU.
Memcpy(dst, src, windows) ==
    [i \in DOMAIN dst |-> IF i \in windows THEN src[i] ELSE dst[i]]

-----------------------------------------------------------------------------
(* ecrt_domain_queue *)

\* ec_master_queue_datagram()
QueuedDatagram == [state |-> "EC_DATAGRAM_QUEUED", working_counter |-> 0]

ecrt_domain_queue ==
    /\ UNCHANGED fsm_vars
    /\ pc = "finished"
    /\ LET windows == UNION {FmmusOfPair(p) : p \in Pairs}
       IN /\ send_buffer' = Memcpy(send_buffer, main_data, windows)
          /\ backup_data' = Memcpy(backup_data, main_data, windows)
    /\ datagrams' = [p \in Pairs |->
                        [main |-> QueuedDatagram, backup |-> QueuedDatagram]]
    /\ last_op' = "queue"
    /\ UNCHANGED <<fmmu_configs, data_size, data, data_origin,
                   logical_base_address, datagram_pairs, working_counter,
                   expected_working_counter, working_counter_changes,
                   main_data, freed, pc>>

-----------------------------------------------------------------------------
(* The application and the wire *)

\* The application stores a value in one window of the process image; its
\* access is serialised with the cycle.
ImageWrite(i, value) ==
    /\ UNCHANGED fsm_vars
    /\ pc = "finished"
    /\ last_op \in {"finish", "process", "process_again", "write"}
    /\ i \in Fmmus
    /\ main_data[i] # value
    /\ main_data' = [main_data EXCEPT ![i] = value]
    /\ last_op' = "write"
    /\ UNCHANGED <<fmmu_configs, data_size, data, data_origin,
                   logical_base_address, datagram_pairs, working_counter,
                   expected_working_counter, working_counter_changes,
                   datagrams, backup_data, send_buffer, freed, pc>>

\* The slave configurations that own an FMMU of direction dir in pair p.
SlavesOfPair(p, dir) ==
    {fmmu_configs[i].sc : i \in {j \in FmmusOfPair(p) :
                                    fmmu_configs[j].dir = dir}}

\* The most the slaves add to the working counter of one logical datagram:
\* 1 for every slave read, and for every slave written 1 (LWR) or 3 (LRW).
WireMaxWc(p) ==
    LET nout == Cardinality(SlavesOfPair(p, EC_DIR_OUTPUT))
        nin == Cardinality(SlavesOfPair(p, EC_DIR_INPUT))
    IN  CASE datagram_pairs[p].type = "LRD" -> nin
          [] datagram_pairs[p].type = "LWR" -> nout
          [] datagram_pairs[p].type = "LRW" -> 3 * nout + nin

\* A datagram in state EC_DATAGRAM_ERROR is handled like a timed out one.
WireStates == {"EC_DATAGRAM_RECEIVED", "EC_DATAGRAM_TIMED_OUT"}

\* The working counters tried for one sibling: no slave answers, or all do.
WireWcs(p) == {0, WireMaxWc(p)}

InputsOfPair(p) ==
    {i \in FmmusOfPair(p) : fmmu_configs[i].dir = EC_DIR_INPUT}

Received(state, wc) ==
    [state |-> state,
     working_counter |-> IF state = "EC_DATAGRAM_RECEIVED" THEN wc ELSE 0]

\* The payload of a datagram after the wire: a received read datagram
\* carries what the slaves put into the input windows.
WireData(buf, p, state, input) ==
    IF state = "EC_DATAGRAM_RECEIVED" /\ datagram_pairs[p].type # "LWR"
    THEN [i \in DOMAIN buf |->
             IF i \in InputsOfPair(p) THEN input[i] ELSE buf[i]]
    ELSE buf

\* Both siblings of pair p come back from the two links; the pairs come
\* back in the order they were queued.
Wire(p, mstate, bstate, mwc, bwc, minput, binput) ==
    /\ UNCHANGED fsm_vars
    /\ pc = "finished"
    /\ p \in Pairs
    /\ \A q \in 1..(p - 1) : datagrams[q].main.state # "EC_DATAGRAM_QUEUED"
    /\ datagrams[p].main.state = "EC_DATAGRAM_QUEUED"
    /\ datagrams[p].backup.state = "EC_DATAGRAM_QUEUED"
    /\ mwc + bwc <= WireMaxWc(p)
    /\ mstate # "EC_DATAGRAM_RECEIVED" => mwc = 0
    /\ bstate # "EC_DATAGRAM_RECEIVED" => bwc = 0
    /\ datagrams' = [datagrams EXCEPT ![p] =
                        [main |-> Received(mstate, mwc),
                         backup |-> Received(bstate, bwc)]]
    /\ main_data' = WireData(main_data, p, mstate, minput)
    /\ backup_data' = WireData(backup_data, p, bstate, binput)
    /\ last_op' = "wire"
    /\ UNCHANGED <<fmmu_configs, data_size, data, data_origin,
                   logical_base_address, datagram_pairs, working_counter,
                   expected_working_counter, working_counter_changes,
                   send_buffer, freed, pc>>

-----------------------------------------------------------------------------
(* ecrt_domain_process *)

\* ec_datagram_pair_process(): the working counters of the received siblings.
ec_datagram_pair_process(p) ==
    (IF datagrams[p].main.state = "EC_DATAGRAM_RECEIVED"
        THEN datagrams[p].main.working_counter ELSE 0)
    + (IF datagrams[p].backup.state = "EC_DATAGRAM_RECEIVED"
        THEN datagrams[p].backup.working_counter ELSE 0)

\* ec_datagram_pair_data_changed(): the window differs from the send buffer.
ec_datagram_pair_data_changed(buf, i) == buf[i] # send_buffer[i]

\* datagram_offset >= datagram_size, with the unsigned datagram_offset =
\* fmmu->logical_start_address - logical_datagram_address.
OffsetOutside(fmmu_address, datagram_address, datagram_size) ==
    \/ fmmu_address < datagram_address
    \/ fmmu_address - datagram_address >= datagram_size

WcSum(sum, datagram_pair_wc) == (sum + datagram_pair_wc) % 65536

\* The while loop of process(): step to the pair that holds the FMMU.
RECURSIVE NextPairs(_, _)
NextPairs(st, i) ==
    IF /\ st.pair < Len(datagram_pairs)
       /\ OffsetOutside(fmmu_configs[i].logical_start_address,
                        datagram_pairs[st.pair].address,
                        datagram_pairs[st.pair].data_size)
    THEN LET next == st.pair + 1
             wc == ec_datagram_pair_process(next)
         IN NextPairs([st EXCEPT !.pair = next,
                                 !.datagram_pair_wc = wc,
                                 !.sum = WcSum(@, wc)], i)
    ELSE st

\* The main window never counts as changed.
MainChanged_never(main, i) == FALSE

\* if (ec_datagram_pair_data_changed(pair, datagram_offset, size, EC_DEVICE_MAIN))
MainChanged(main, i) == ec_datagram_pair_data_changed(main, i)

\* The backup window is never adopted.
BackupChosen_never(backup, i, datagram_pair_wc, expected) == FALSE

\* else if (ec_datagram_pair_data_changed(..., EC_DEVICE_BACKUP)
\*          || datagram_pair_wc == datagram_pair->expected_working_counter)
BackupChosen(backup, i, datagram_pair_wc, expected) ==
    \/ ec_datagram_pair_data_changed(backup, i)
    \/ datagram_pair_wc = expected

BackupWins(main, backup, i, datagram_pair_wc, expected) ==
    /\ ~ MainChanged(main, i)
    /\ BackupChosen(backup, i, datagram_pair_wc, expected)

\* The copy runs over every window of the domain.
CopiedWindows_all(i) == Fmmus

\* memcpy(main data + datagram_offset, backup data + datagram_offset,
\*        fmmu->data_size): the window of the FMMU.
CopiedWindows(i) == {i}

\* One pass of the list_for_each_entry loop of process().  copied records
\* the windows the memcpy calls have written.
ProcessFmmu(st, i) ==
    IF fmmu_configs[i].dir # EC_DIR_INPUT THEN st
    ELSE LET st1 == NextPairs(st, i)
         IN IF BackupWins(st1.main, backup_data, i, st1.datagram_pair_wc,
                   datagram_pairs[st1.pair].expected_working_counter)
            THEN [st1 EXCEPT
                     !.main = Memcpy(@, backup_data, CopiedWindows(i)),
                     !.copied = @ \cup CopiedWindows(i)]
            ELSE st1

RECURSIVE ProcessLoop(_, _)
ProcessLoop(st, i) ==
    IF i > Len(fmmu_configs) THEN st
    ELSE ProcessLoop(ProcessFmmu(st, i), i + 1)

\* Every call counts as a change.
WcChanged_always(sum, wc) == TRUE

\* working_counter_sum != domain->working_counter
WcChanged(sum, wc) == sum # wc

\* The locals of process() after the loop.  uninit is what the read
\* through the unassigned fmmu pointer yields for datagram_offset before
\* the loop; the loop assigns datagram_offset before it reads it.
ProcessResult(uninit) ==
    LET st0 == IF datagram_pairs # <<>>
               THEN [pair |-> 1,
                     datagram_offset |-> uninit,
                     datagram_pair_wc |-> ec_datagram_pair_process(1),
                     sum |-> WcSum(0, ec_datagram_pair_process(1)),
                     main |-> main_data,
                     copied |-> {}]
               ELSE [pair |-> 0,
                     datagram_offset |-> 0,
                     datagram_pair_wc |-> 0,
                     sum |-> 0,
                     main |-> main_data,
                     copied |-> {}]
    IN ProcessLoop(st0, 1)

\* elapsed: jiffies - domain->notify_jiffies > HZ.
ecrt_domain_process(uninit, elapsed) ==
    /\ UNCHANGED fsm_vars
    /\ pc = "finished"
    /\ LET r == ProcessResult(uninit)
           changed == WcChanged(r.sum, working_counter)
           changes == IF changed THEN working_counter_changes + 1
                      ELSE working_counter_changes
           notify == changes # 0 /\ elapsed
       IN /\ changes <= MaxChanges
          /\ main_data' = r.main
          /\ working_counter' = IF changed THEN r.sum ELSE working_counter
          /\ working_counter_changes' = IF notify THEN 0 ELSE changes
    /\ last_op' = IF last_op \in {"process", "process_again"}
                  THEN "process_again" ELSE "process"
    /\ UNCHANGED <<fmmu_configs, data_size, data, data_origin,
                   logical_base_address, datagram_pairs,
                   expected_working_counter, datagrams, backup_data,
                   send_buffer, freed, pc>>

-----------------------------------------------------------------------------
(* ecrt_domain_state *)

EC_WC_ZERO == "EC_WC_ZERO"
EC_WC_INCOMPLETE == "EC_WC_INCOMPLETE"
EC_WC_COMPLETE == "EC_WC_COMPLETE"

\* Every non-zero counter counts as complete.
WcIsComplete_nonzero(wc, expected) == TRUE

\* if (domain->working_counter == domain->expected_working_counter)
WcIsComplete(wc, expected) == wc = expected

\* The ec_domain_state_t the call fills in; the domain is not changed.
ecrt_domain_state ==
    [working_counter |-> working_counter,
     wc_state |-> IF working_counter # 0
                  THEN (IF WcIsComplete(working_counter,
                                        expected_working_counter)
                        THEN EC_WC_COMPLETE
                        ELSE EC_WC_INCOMPLETE)
                  ELSE EC_WC_ZERO]

-----------------------------------------------------------------------------
(* Specification of registration and finish *)

Next ==
    \/ \E sc \in SlaveConfigs, dir \in Directions, size \in FmmuSizes :
          /\ Len(fmmu_configs) < MaxFmmus
          /\ ec_domain_add_fmmu_config(ec_fmmu_config_init(sc, dir, size))
    \/ \E mem \in {"ext"} :
          /\ pc = "config"
          /\ last_op # "external_memory"
          /\ ecrt_domain_external_memory(mem)
    \/ \E base \in BaseAddresses, fail \in 0..(Len(fmmu_configs) + 1) :
          ec_domain_finish(base, fail)

Spec == Init /\ [][Next]_vars

-----------------------------------------------------------------------------
(* Specification of the life of the process image: the buffer may be        *)
(* replaced before and after finish(), and the domain is destroyed last.    *)

MemBaseAddresses == {4096}

NextMem ==
    \/ \E dir \in Directions, size \in FmmuSizes :
          /\ Len(fmmu_configs) < MaxFmmus
          /\ ec_domain_add_fmmu_config(ec_fmmu_config_init("A", dir, size))
    \/ \E mem \in ExternalBuffers : ecrt_domain_external_memory(mem)
    \/ \E base \in MemBaseAddresses, fail \in 0..(Len(fmmu_configs) + 1) :
          ec_domain_finish(base, fail)
    \/ ec_domain_clear

SpecMem == Init /\ [][NextMem]_vars

-----------------------------------------------------------------------------
(* Specification of the cyclic exchange *)

Full == EC_MAX_DATA_SIZE

\* The domains that are cycled: sequences of <<slave config, direction, size>>.
CycleLayouts ==
    { << <<"A", EC_DIR_INPUT, 1>>, <<"A", EC_DIR_OUTPUT, 1>> >>,
      << <<"A", EC_DIR_INPUT, Full>>, <<"A", EC_DIR_OUTPUT, 1>>,
         <<"B", EC_DIR_OUTPUT, 1>> >>,
      << <<"A", EC_DIR_INPUT, Full>>, <<"A", EC_DIR_INPUT, 1>> >> }

Kind(fmmu) == <<fmmu.sc, fmmu.dir, fmmu.data_size>>

IsCycleLayout(fmmus) ==
    \E layout \in CycleLayouts :
        /\ Len(fmmus) <= Len(layout)
        /\ \A i \in 1..Len(fmmus) : Kind(fmmus[i]) = layout[i]

UninitOffsets == {0, 65535}
CycleBaseAddresses == {4096}

NextCycle ==
    \/ \E sc \in SlaveConfigs, dir \in Directions, size \in FmmuSizes :
          /\ IsCycleLayout(Append(fmmu_configs,
                                  ec_fmmu_config_init(sc, dir, size)))
          /\ ec_domain_add_fmmu_config(ec_fmmu_config_init(sc, dir, size))
    \/ \E base \in CycleBaseAddresses, fail \in 0..(Len(fmmu_configs) + 1) :
          ec_domain_finish(base, fail)
    \/ ecrt_domain_queue
    \/ \E i \in Fmmus, value \in Bytes : ImageWrite(i, value)
    \/ \E p \in Pairs :
          \E mstate \in WireStates, bstate \in WireStates,
             mwc \in WireWcs(p), bwc \in WireWcs(p),
             minput \in [InputsOfPair(p) -> Bytes],
             binput \in [InputsOfPair(p) -> Bytes] :
             Wire(p, mstate, bstate, mwc, bwc, minput, binput)
    \/ \E uninit \in UninitOffsets, elapsed \in BOOLEAN :
          ecrt_domain_process(uninit, elapsed)

SpecCycle == Init /\ [][NextCycle]_vars

-----------------------------------------------------------------------------
(* Slave request state machine: the steps of one exec() call work on a     *)
(* record st of the state machine, the slave, the requests, the datagram,   *)
(* the wait queues woken and the number of datagrams queued by the call;   *)
(* st.ret is the return value of the process function called last.          *)

StepState(current_state) ==
    [fsm |-> fsm, slave |-> slave, requests |-> requests,
     datagram |-> fsm_datagram, woken |-> {}, queued |-> 0, ret |-> 0,
     current_state |-> current_state]

\* request->state = v
SetRequestState(st, r, v) == [st EXCEPT !.requests[r].state = v]

\* wake_up(&slave-><q>)
wake_up(st, q) == [st EXCEPT !.woken = @ \cup {q}]

\* ec_master_queue_external_datagram(): the datagram waits to be sent.
ec_master_queue_external_datagram(st, type, content) ==
    [st EXCEPT !.datagram = FsmDatagram("EC_DATAGRAM_QUEUED", type, content),
               !.queued = @ + 1]

\* slave->current_state & EC_SLAVE_STATE_ACK_ERR
HasAckErr(current_state) == EC_SLAVE_STATE_ACK_ERR \subseteq current_state

\* ec_fsm_coe_transfer(), ec_fsm_foe_transfer(), ec_fsm_soe_transfer()
\* followed by the first exec(): the transfer needs steps more exchanges.
SubTransfer(st, steps) ==
    ec_master_queue_external_datagram(
        [st EXCEPT !.fsm.sub_left = steps], "MBOX", 0)

\* ec_fsm_coe_exec(), ec_fsm_foe_exec(), ec_fsm_soe_exec(): non-zero while
\* the transfer is not finished.
SubExec(st) == st.fsm.sub_left > 0

\* The request of a finished transfer is left as it is.
TransferResult_busy(ok) == EC_INT_REQUEST_BUSY

\* request->state = EC_INT_REQUEST_FAILURE if the transfer did not succeed,
\* request->state = EC_INT_REQUEST_SUCCESS otherwise
TransferResult(ok) ==
    IF ok THEN EC_INT_REQUEST_SUCCESS ELSE EC_INT_REQUEST_FAILURE

\* The datagram is not handed to the master.
RequeueDatagram_none(st) == st

\* if (ec_fsm_..._exec(...)) { ec_master_queue_external_datagram(...); return; }
RequeueDatagram(st) == ec_master_queue_external_datagram(st, "MBOX", 0)

-----------------------------------------------------------------------------
(* SDO requests *)

ec_fsm_slave_action_process_sdo(st, steps) ==
    IF st.slave.sdo_requests = <<>> THEN [st EXCEPT !.ret = 0]
    ELSE
        LET request == Head(st.slave.sdo_requests)
            s1 == [st EXCEPT !.slave.sdo_requests = Tail(@)]
            abort == [wake_up(SetRequestState(s1, request,
                                  EC_INT_REQUEST_FAILURE), "sdo_queue")
                        EXCEPT !.fsm.sdo_request = NULL,
                               !.fsm.state = ec_fsm_slave_state_idle,
                               !.ret = 0]
        IN  IF HasAckErr(s1.current_state) THEN abort
            ELSE IF s1.current_state = EC_SLAVE_STATE_INIT THEN abort
            ELSE [SubTransfer(SetRequestState(s1, request,
                                  EC_INT_REQUEST_BUSY), steps)
                    EXCEPT !.fsm.sdo_request = request,
                           !.fsm.state = ec_fsm_slave_state_sdo_request,
                           !.ret = 1]

ec_fsm_slave_state_sdo_request_step(st, ok) ==
    LET request == st.fsm.sdo_request
    IN  IF SubExec(st)
        THEN RequeueDatagram([st EXCEPT !.fsm.sub_left = @ - 1])
        ELSE [wake_up(SetRequestState(st, request,
                        TransferResult(ok)), "sdo_queue")
                EXCEPT !.fsm.sdo_request = NULL,
                       !.fsm.state = ec_fsm_slave_state_ready]

-----------------------------------------------------------------------------
(* Register requests *)

\* The first request of a list of references that is in state QUEUED.
RECURSIVE FirstQueued(_, _)
FirstQueued(reqs, list) ==
    IF list = <<>> THEN NULL
    ELSE IF reqs[Head(list)].state = EC_INT_REQUEST_QUEUED THEN Head(list)
    ELSE FirstQueued(reqs, Tail(list))

ec_fsm_slave_action_process_reg(st) ==
    LET internal == IF st.slave.config # "NULL"
                    THEN FirstQueued(st.requests, config_reg_requests)
                    ELSE NULL
        external == internal = NULL /\ st.slave.reg_requests # <<>>
        reg == IF external THEN Head(st.slave.reg_requests) ELSE internal
        s1 == [st EXCEPT !.fsm.reg_request = reg,
                         !.slave.reg_requests =
                             IF external THEN Tail(@) ELSE @]
    IN  IF reg = NULL THEN [s1 EXCEPT !.ret = 0]
        ELSE IF HasAckErr(s1.current_state)
        THEN [wake_up(SetRequestState(s1, reg, EC_INT_REQUEST_FAILURE),
                      "reg_queue")
                EXCEPT !.fsm.state = ec_fsm_slave_state_idle,
                       !.ret = 1]
        ELSE [ec_master_queue_external_datagram(
                  SetRequestState(s1, reg, EC_INT_REQUEST_BUSY),
                  IF s1.requests[reg].dir = EC_DIR_INPUT
                  THEN "FPRD" ELSE "FPWR",
                  IF s1.requests[reg].dir = EC_DIR_INPUT
                  THEN 0 ELSE s1.requests[reg].data)
                EXCEPT !.fsm.state = ec_fsm_slave_state_reg_request,
                       !.ret = 1]

\* Every working counter but 0 counts as a success.
RegSucceeded_nonzero(wc) == wc # 0

\* if (fsm->datagram->working_counter == 1)
RegSucceeded(wc) == wc = 1

ec_fsm_slave_state_reg_request_step(st) ==
    LET reg == st.fsm.reg_request
    IN  IF reg = NULL
        THEN [st EXCEPT !.fsm.state = ec_fsm_slave_state_ready]
        ELSE IF st.datagram.state # "EC_DATAGRAM_RECEIVED"
        THEN [wake_up(SetRequestState(st, reg, EC_INT_REQUEST_FAILURE),
                      "reg_queue")
                EXCEPT !.fsm.state = ec_fsm_slave_state_ready]
        ELSE IF RegSucceeded(st.datagram.working_counter)
        THEN [wake_up(SetRequestState(st, reg, EC_INT_REQUEST_SUCCESS),
                      "reg_queue")
                EXCEPT !.requests[reg].data =
                           IF st.requests[reg].dir = EC_DIR_INPUT
                           THEN st.datagram.data ELSE @,
                       !.fsm.state = ec_fsm_slave_state_ready]
        ELSE [wake_up(SetRequestState(st, reg, EC_INT_REQUEST_FAILURE),
                      "reg_queue")
                EXCEPT !.fsm.state = ec_fsm_slave_state_ready]

-----------------------------------------------------------------------------
(* FoE requests *)

ec_fsm_slave_action_process_foe(st, steps) ==
    IF st.slave.foe_requests = <<>> THEN [st EXCEPT !.ret = 0]
    ELSE
        LET request == Head(st.slave.foe_requests)
            s1 == [st EXCEPT !.slave.foe_requests = Tail(@)]
        IN  IF HasAckErr(s1.current_state)
            THEN [wake_up(SetRequestState(s1, request,
                              EC_INT_REQUEST_FAILURE), "sdo_queue")
                    EXCEPT !.ret = 0]
            ELSE [SubTransfer(SetRequestState(s1, request,
                                  EC_INT_REQUEST_BUSY), steps)
                    EXCEPT !.fsm.foe_request = request,
                           !.fsm.state = ec_fsm_slave_state_foe_request,
                           !.ret = 1]

ec_fsm_slave_state_foe_request_step(st, ok) ==
    LET request == st.fsm.foe_request
    IN  IF SubExec(st)
        THEN RequeueDatagram([st EXCEPT !.fsm.sub_left = @ - 1])
        ELSE [wake_up(SetRequestState(st, request,
                        TransferResult(ok)), "foe_queue")
                EXCEPT !.fsm.foe_request = NULL,
                       !.fsm.state = ec_fsm_slave_state_ready]

-----------------------------------------------------------------------------
(* SoE requests *)

ec_fsm_slave_action_process_soe(st, steps) ==
    IF st.slave.soe_requests = <<>> THEN [st EXCEPT !.ret = 0]
    ELSE
        LET req == Head(st.slave.soe_requests)
            s1 == [st EXCEPT !.slave.soe_requests = Tail(@)]
            abort == [wake_up(SetRequestState(s1, req,
                                  EC_INT_REQUEST_FAILURE), "soe_queue")
                        EXCEPT !.fsm.state = ec_fsm_slave_state_idle,
                               !.ret = 0]
        IN  IF HasAckErr(s1.current_state) THEN abort
            ELSE IF s1.current_state = EC_SLAVE_STATE_INIT THEN abort
            ELSE [SubTransfer(SetRequestState(s1, req,
                                  EC_INT_REQUEST_BUSY), steps)
                    EXCEPT !.fsm.soe_request = req,
                           !.fsm.state = ec_fsm_slave_state_soe_request,
                           !.ret = 1]

ec_fsm_slave_state_soe_request_step(st, ok) ==
    LET request == st.fsm.soe_request
    IN  IF SubExec(st)
        THEN RequeueDatagram([st EXCEPT !.fsm.sub_left = @ - 1])
        ELSE [wake_up(SetRequestState(st, request,
                        TransferResult(ok)), "soe_queue")
                EXCEPT !.fsm.soe_request = NULL,
                       !.fsm.state = ec_fsm_slave_state_ready]

-----------------------------------------------------------------------------
(* ec_fsm_slave_state_ready, ec_fsm_slave_exec, ec_fsm_slave_ready *)

\* No process function ends the ready step.
Processed_never(ret) == FALSE

\* if (ec_fsm_slave_action_process_...(fsm)) return;
Processed(ret) == ret # 0

\* Each process function is called only when the one before returned 0.
ReadyOrder(st, steps) ==
    LET a == ec_fsm_slave_action_process_sdo(st, steps)
    IN  IF Processed(a.ret) THEN a
        ELSE LET b == ec_fsm_slave_action_process_reg(a)
             IN  IF Processed(b.ret) THEN b
                 ELSE LET c == ec_fsm_slave_action_process_foe(b, steps)
                      IN  IF Processed(c.ret) THEN c
                          ELSE ec_fsm_slave_action_process_soe(c, steps)

ec_fsm_slave_state_ready_step(st, steps) == ReadyOrder(st, steps)

\* The datagram is skipped although it is not back yet.
DatagramPending_never(datagram) == FALSE

\* fsm->datagram->state == EC_DATAGRAM_SENT || ... == EC_DATAGRAM_QUEUED
DatagramPending(datagram) ==
    datagram.state \in {"EC_DATAGRAM_SENT", "EC_DATAGRAM_QUEUED"}

\* fsm->state(fsm)
StateFunction(st, steps, ok) ==
    CASE st.fsm.state = ec_fsm_slave_state_idle -> st
      [] st.fsm.state = ec_fsm_slave_state_ready ->
            ec_fsm_slave_state_ready_step(st, steps)
      [] st.fsm.state = ec_fsm_slave_state_sdo_request ->
            ec_fsm_slave_state_sdo_request_step(st, ok)
      [] st.fsm.state = ec_fsm_slave_state_reg_request ->
            ec_fsm_slave_state_reg_request_step(st)
      [] st.fsm.state = ec_fsm_slave_state_foe_request ->
            ec_fsm_slave_state_foe_request_step(st, ok)
      [] st.fsm.state = ec_fsm_slave_state_soe_request ->
            ec_fsm_slave_state_soe_request_step(st, ok)

\* steps and ok are what the sub-state-machine does in this call: the
\* exchanges a transfer started now will need, and whether a transfer that
\* finishes now succeeded.
ec_fsm_slave_exec(current_state, steps, ok) ==
    /\ LET r == IF DatagramPending(fsm_datagram)
                THEN StepState(current_state)
                ELSE StateFunction(StepState(current_state), steps, ok)
       IN  /\ fsm' = r.fsm
           /\ slave' = r.slave
           /\ requests' = r.requests
           /\ fsm_datagram' = r.datagram
           /\ step' = [op |-> "exec",
                       woken |-> r.woken, queued |-> r.queued,
                       current_state |->
                           IF ~DatagramPending(fsm_datagram)
                              /\ fsm.state = ec_fsm_slave_state_ready
                           THEN current_state
                           ELSE EC_SLAVE_STATE_UNKNOWN]
    /\ UNCHANGED config_reg_requests
    /\ UNCHANGED domain_vars

\* Only the idle state is left.
LeavesIdle_always(state) == TRUE

\* if (fsm->state == ec_fsm_slave_state_idle)
LeavesIdle(state) == state = ec_fsm_slave_state_idle

ec_fsm_slave_ready ==
    /\ fsm' = IF LeavesIdle(fsm.state)
              THEN [fsm EXCEPT !.state = ec_fsm_slave_state_ready]
              ELSE fsm
    /\ step' = NoStep("ready")
    /\ UNCHANGED <<slave, config_reg_requests, requests, fsm_datagram>>
    /\ UNCHANGED domain_vars

-----------------------------------------------------------------------------
(* The environment of the state machine: the application, the master and    *)
(* the bus.                                                                  *)

\* A request is created in state QUEUED and appended to the list of its
\* kind; an internal register request belongs to the slave configuration.
SubmitRequest(kind, dir, internal) ==
    /\ LET r == Len(requests) + 1
       IN  /\ requests' = Append(requests,
                   [kind |-> kind, state |-> EC_INT_REQUEST_QUEUED,
                    dir |-> dir,
                    data |-> IF dir = EC_DIR_OUTPUT THEN 1 ELSE 0,
                    internal |-> internal])
           /\ IF internal
              THEN /\ config_reg_requests' = Append(config_reg_requests, r)
                   /\ UNCHANGED slave
              ELSE /\ slave' =
                       CASE kind = "sdo" ->
                              [slave EXCEPT !.sdo_requests = Append(@, r)]
                         [] kind = "reg" ->
                              [slave EXCEPT !.reg_requests = Append(@, r)]
                         [] kind = "foe" ->
                              [slave EXCEPT !.foe_requests = Append(@, r)]
                         [] kind = "soe" ->
                              [slave EXCEPT !.soe_requests = Append(@, r)]
                   /\ UNCHANGED config_reg_requests
    /\ step' = NoStep("environment")
    /\ UNCHANGED <<fsm, fsm_datagram>>
    /\ UNCHANGED domain_vars

\* The configuration of the slave is cleared: it is detached from the
\* slave, a register request of the configuration that is being processed
\* is invalidated, and the register requests of the configuration are
\* freed with it.
ec_slave_config_clear ==
    /\ slave.config # "NULL"
    /\ slave' = [slave EXCEPT !.config = "NULL"]
    /\ fsm' = IF \E i \in DOMAIN config_reg_requests :
                     config_reg_requests[i] = fsm.reg_request
              THEN [fsm EXCEPT !.reg_request = NULL]
              ELSE fsm
    /\ config_reg_requests' = <<>>
    /\ step' = NoStep("environment")
    /\ UNCHANGED <<requests, fsm_datagram>>
    /\ UNCHANGED domain_vars

\* The master sends the queued datagram.
DatagramSent ==
    /\ fsm_datagram.state = "EC_DATAGRAM_QUEUED"
    /\ fsm_datagram' = [fsm_datagram EXCEPT !.state = "EC_DATAGRAM_SENT"]
    /\ step' = NoStep("environment")
    /\ UNCHANGED <<fsm, slave, config_reg_requests, requests>>
    /\ UNCHANGED domain_vars

\* The datagram comes back with a working counter and, for a read, with the
\* content of the register (what a mailbox datagram comes back with is
\* read by the sub-state-machines only); or it is lost (EC_DATAGRAM_ERROR is handled
\* like EC_DATAGRAM_TIMED_OUT everywhere and is not modelled apart).
DatagramBack(state, wc, content) ==
    /\ fsm_datagram.state = "EC_DATAGRAM_SENT"
    /\ fsm_datagram' =
           IF state = "EC_DATAGRAM_RECEIVED"
           THEN [fsm_datagram EXCEPT
                    !.state = state,
                    !.working_counter = wc,
                    !.data = IF fsm_datagram.type = "FPRD"
                             THEN content ELSE @]
           ELSE [fsm_datagram EXCEPT !.state = state]
    /\ step' = NoStep("environment")
    /\ UNCHANGED <<fsm, slave, config_reg_requests, requests>>
    /\ UNCHANGED domain_vars

-----------------------------------------------------------------------------
(* Specification of the slave request state machine *)

\* What the memory of the four references holds at construction: zeros, or
\* values that are not null.
InitialRefs == {<<NULL, NULL, NULL, NULL>>,
                <<Uninit, Uninit, Uninit, Uninit>>}

InitFsm ==
    /\ ec_domain_init
    /\ \E refs \in InitialRefs : ec_fsm_slave_init(refs)
    /\ ec_slave_init

\* An input that the call does not read has one value: the AL state and
\* the length of a transfer are read in the ready step, the success of a
\* transfer when the sub-state-machine finishes.
InputsRead(current_state, steps, ok) ==
    LET ready == /\ ~DatagramPending(fsm_datagram)
                 /\ fsm.state = ec_fsm_slave_state_ready
        finishing == /\ ~DatagramPending(fsm_datagram)
                     /\ fsm.state \in {ec_fsm_slave_state_sdo_request,
                                       ec_fsm_slave_state_foe_request,
                                       ec_fsm_slave_state_soe_request}
                     /\ fsm.sub_left = 0
    IN  /\ ready \/ (current_state = EC_SLAVE_STATE_PREOP /\ steps = 0)
        /\ finishing \/ ok

\* The master calls exec() in every cycle.
ExecCalled ==
    \E current_state \in ALStates, steps \in 0..MaxSubSteps, ok \in BOOLEAN :
        /\ InputsRead(current_state, steps, ok)
        /\ ec_fsm_slave_exec(current_state, steps, ok)

\* The master gets the datagram back or gives it up.
DatagramComesBack ==
    \/ \E wc \in FsmWcs, content \in Bytes :
          /\ fsm_datagram.type = "FPRD" \/ content = 0
          /\ fsm_datagram.type # "MBOX" \/ wc = 1
          /\ DatagramBack("EC_DATAGRAM_RECEIVED", wc, content)
    \/ DatagramBack("EC_DATAGRAM_TIMED_OUT", 0, 0)

\* The application submits a request of any kind.
Submit ==
    \/ \E kind \in Kinds \ {"reg"} :
          SubmitRequest(kind, EC_DIR_INPUT, FALSE)
    \/ \E dir \in Directions : SubmitRequest("reg", dir, FALSE)
    \/ SubmitRequest("reg", EC_DIR_INPUT, TRUE)

NextFsm ==
    \/ Len(requests) < MaxRequests /\ Submit
    \/ ec_slave_config_clear
    \/ DatagramSent
    \/ DatagramComesBack
    \/ ExecCalled
    \/ ec_fsm_slave_ready

SpecFsm == InitFsm /\ [][NextFsm]_vars

-----------------------------------------------------------------------------
(* Specification of the progress of the requests: the master calls exec()  *)
(* in every cycle, sends every queued datagram and gets it back or gives   *)
(* it up.                                                                   *)

\* Number of requests the application submits in the progress specification.
MaxLiveRequests == 1

NextFsmLive ==
    \/ Len(requests) < MaxLiveRequests /\ Submit
    \/ ec_slave_config_clear
    \/ DatagramSent
    \/ DatagramComesBack
    \/ ExecCalled
    \/ ec_fsm_slave_ready

SpecFsmLive ==
    /\ InitFsm
    /\ [][NextFsmLive]_vars
    /\ WF_vars(ExecCalled)
    /\ WF_vars(DatagramSent)
    /\ WF_vars(DatagramComesBack)

-----------------------------------------------------------------------------
(* Properties of finish() *)

Finished == pc = "finished"

SplitDomain ==
    /\ Finished
    /\ Len(fmmu_configs) = 3
    /\ Len(datagram_pairs) >= 2
    /\ logical_base_address # 0

\* C1: after finish(), used[d] of every pair is the number of distinct slave
\* configs that have an FMMU of direction d in the pair's window.
C1_UsedCountsSlaveConfigs ==
    Finished =>
        \A p \in Pairs, d \in Directions :
            datagram_pairs[p].used[d] = Cardinality(SlavesOfPair(p, d))

\* C2: after finish(), the sum of the FMMU sizes, data_size and the sum of
\* the pair payload sizes are equal.
C2_SizesAgree ==
    Finished =>
        /\ SumSizes(fmmu_configs) = data_size
        /\ SumSizes(datagram_pairs) = data_size

C2_Witness == SplitDomain /\ data_size > EC_MAX_DATA_SIZE

\* C3: every pair emitted by finish() has a payload of at most
\* EC_MAX_DATA_SIZE bytes.
C3_PayloadAtMostMax ==
    Finished =>
        \A p \in Pairs : datagram_pairs[p].data_size <= EC_MAX_DATA_SIZE

RECURSIVE SumExpected(_)
SumExpected(pairs) ==
    IF pairs = <<>> THEN 0
    ELSE Head(pairs).expected_working_counter + SumExpected(Tail(pairs))

FollowsTable(pair) ==
    LET nout == pair.used[EC_DIR_OUTPUT]
        nin == pair.used[EC_DIR_INPUT]
    IN  /\ ~ (nout = 0 /\ nin = 0)
        /\ (nout = 0 /\ nin > 0) =>
              pair.type = "LRD" /\ pair.expected_working_counter = nin
        /\ (nout > 0 /\ nin = 0) =>
              pair.type = "LWR" /\ pair.expected_working_counter = nout
        /\ (nout > 0 /\ nin > 0) =>
              /\ pair.type = "LRW"
              /\ pair.expected_working_counter = 3 * nout + nin

\* C4: the command and the expected working counter of every pair follow
\* the table of the used counts, no pair has used = (0,0), and the expected
\* working counter of the domain is the sum over its pairs.
C4_TypeAndExpectedWc ==
    Finished =>
        /\ \A p \in Pairs : FollowsTable(datagram_pairs[p])
        /\ expected_working_counter = SumExpected(datagram_pairs)

\* C5: after finish(), the bytes of every FMMU lie in the window of exactly
\* one datagram pair.
C5_FmmuInOnePair ==
    Finished =>
        \A i \in Fmmus :
            Cardinality({p \in Pairs : i \in FmmusOfPair(p)}) = 1

C5_Witness == SplitDomain /\ fmmu_configs[3].logical_start_address > 4096

RECURSIVE SizeBetween(_, _)
SizeBetween(a, b) ==
    IF a > b THEN 0 ELSE fmmu_configs[a].data_size + SizeBetween(a + 1, b)

\* cuts: the positions after which a group ends.
GroupOf(cuts, i) ==
    LET before == {c \in cuts : c < i}
        after == {c \in cuts : c >= i}
        first == IF before = {} THEN 1
                 ELSE (CHOOSE c \in before : \A d \in before : d <= c) + 1
        last == IF after = {} THEN Len(fmmu_configs)
                ELSE CHOOSE c \in after : \A d \in after : c <= d
    IN  <<first, last>>

FittingPartition(cuts) ==
    \A i \in Fmmus :
        SizeBetween(GroupOf(cuts, i)[1], GroupOf(cuts, i)[2])
            <= EC_MAX_DATA_SIZE

GroupCount(cuts) ==
    IF fmmu_configs = <<>> THEN 0 ELSE Cardinality(cuts) + 1

\* C6: no partition of the FMMU list into consecutive groups of at most
\* EC_MAX_DATA_SIZE bytes has fewer groups than finish() emits pairs.
C6_MinimalPairs ==
    Finished =>
        \A cuts \in SUBSET (1..(Len(fmmu_configs) - 1)) :
            FittingPartition(cuts) =>
                GroupCount(cuts) >= Len(datagram_pairs)

C6_Witness ==
    /\ SplitDomain
    /\ \A i \in Fmmus : fmmu_configs[i].data_size <= EC_MAX_DATA_SIZE
    /\ SizeBetween(2, 3) <= EC_MAX_DATA_SIZE

-----------------------------------------------------------------------------
(* Properties of the cyclic exchange *)

\* C7: right after queue(), main payload, backup payload and send buffer of
\* every pair are equal over the whole window of the pair.
C7_QueueCopiesEqual ==
    last_op = "queue" =>
        \A p \in Pairs : \A i \in FmmusOfPair(p) :
            /\ backup_data[i] = main_data[i]
            /\ send_buffer[i] = main_data[i]

C7_Witness ==
    /\ last_op = "queue"
    /\ Len(datagram_pairs) = 2
    /\ \E i \in Fmmus, j \in Fmmus : main_data[i] = 1 /\ main_data[j] = 0
    /\ working_counter > 0

RECURSIVE SumPairWcs(_)
SumPairWcs(n) ==
    IF n = 0 THEN 0 ELSE ec_datagram_pair_process(n) + SumPairWcs(n - 1)

\* C8: after process(), working_counter is the sum of the pair working
\* counters of all datagram pairs of the domain.
C8_WcIsSumOfAllPairs ==
    last_op \in {"process", "process_again"} =>
        working_counter = SumPairWcs(Len(datagram_pairs))

\* C9: working_counter never exceeds expected_working_counter.
C9_WcAtMostExpected ==
    Finished => working_counter <= expected_working_counter

\* C10: a process() call that follows a process() call on the same
\* datagrams leaves the image, working_counter and working_counter_changes
\* as they are.
C10_SecondProcessSame ==
    [][last_op' = "process_again" =>
          /\ main_data' = main_data
          /\ working_counter' = working_counter
          /\ working_counter_changes' = working_counter_changes]_vars

\* C10 (amended): a process() call that follows a process() call on the same
\* datagrams leaves the image and working_counter as they are and does not
\* count a change: working_counter_changes stays, or is reset to 0 by the
\* notification.
C10_SecondProcessNoChange ==
    [][last_op' = "process_again" =>
          /\ main_data' = main_data
          /\ working_counter' = working_counter
          /\ working_counter_changes' \in {working_counter_changes, 0}]_vars

C10_Witness ==
    /\ last_op = "process_again"
    /\ working_counter > 0
    /\ \E i \in Fmmus :
          /\ fmmu_configs[i].dir = EC_DIR_INPUT
          /\ main_data[i] # send_buffer[i]
          /\ main_data[i] = backup_data[i]

-----------------------------------------------------------------------------
(* C11: external_memory(p) makes data() return p with origin external; a    *)
(* call of external_memory() on a domain whose origin is already external   *)
(* frees nothing; whatever the sequence of finish(), external_memory() and  *)
(* clear(), every pointer the domain frees is the image it allocated        *)
(* itself, and it is freed at most once.                                     *)
OwnAllocations == {"internal"}

C11_FreesOnlyOwnMemoryOnce ==
    /\ [](/\ \A i \in DOMAIN freed : freed[i] \in OwnAllocations
          /\ \A i, j \in DOMAIN freed : freed[i] = freed[j] => i = j)
    /\ [][\A mem \in ExternalBuffers :
            ecrt_domain_external_memory(mem) =>
                /\ ecrt_domain_data' = mem
                /\ data_origin' = "EC_ORIG_EXTERNAL"
                /\ (data_origin = "EC_ORIG_EXTERNAL" => freed' = freed)]_vars

\* finish() allocated the image, external_memory("ext") freed it and
\* external_memory("ext2") replaced the caller's first buffer.
C11_Witness ==
    /\ last_op = "external_memory"
    /\ freed = <<"internal">>
    /\ data = "ext2"
    /\ datagram_pairs # <<>>

-----------------------------------------------------------------------------
-----------------------------------------------------------------------------
(* C13: in every reachable state the main payload of every datagram pair    *)
(* is the window of the current process image at the pair's offset: its     *)
(* buffer is domain.data plus the offset of the pair, also when             *)
(* external_memory() is called on a finished domain.                        *)
PairOffset(p) == datagram_pairs[p].address - logical_base_address

C13_PayloadIsWindowOfImage ==
    \A p \in 1..Len(datagram_pairs) :
        datagram_pairs[p].data = <<data, PairOffset(p)>>

-----------------------------------------------------------------------------
(* C14: state() returns the current working counter, and wc_state is zero   *)
(* when the counter is 0, complete when it is non-zero and equal to the     *)
(* expected working counter, incomplete otherwise; a domain whose expected  *)
(* working counter is 0 reports zero.                                       *)
C14_StateFollowsCounters ==
    LET st == ecrt_domain_state
    IN  /\ st.working_counter = working_counter
        /\ (working_counter = 0 => st.wc_state = EC_WC_ZERO)
        /\ (working_counter # 0
               /\ working_counter = expected_working_counter
             => st.wc_state = EC_WC_COMPLETE)
        /\ (working_counter # 0
               /\ working_counter # expected_working_counter
             => st.wc_state = EC_WC_INCOMPLETE)
        /\ (expected_working_counter = 0 => st.wc_state = EC_WC_ZERO)

\* A processed cycle in which only some of the slaves answered.
C14_Witness ==
    /\ last_op = "process"
    /\ working_counter # 0
    /\ working_counter < expected_working_counter
    /\ ecrt_domain_state.wc_state = EC_WC_INCOMPLETE

-----------------------------------------------------------------------------
(* Properties of the slave request state machine *)

\* The request reference of a kind and the state that matches it.
Ref(kind) ==
    CASE kind = "sdo" -> fsm.sdo_request
      [] kind = "reg" -> fsm.reg_request
      [] kind = "foe" -> fsm.foe_request
      [] kind = "soe" -> fsm.soe_request

MatchingState(kind) ==
    CASE kind = "sdo" -> ec_fsm_slave_state_sdo_request
      [] kind = "reg" -> ec_fsm_slave_state_reg_request
      [] kind = "foe" -> ec_fsm_slave_state_foe_request
      [] kind = "soe" -> ec_fsm_slave_state_soe_request

Busy(r) == Alive(r) /\ requests[r].state = EC_INT_REQUEST_BUSY

\* The transition is a call of exec() that found the datagram back (or
\* never queued) in the given state of the state machine.
ExecIn(state) ==
    /\ step'.op = "exec"
    /\ fsm.state = state
    /\ fsm_datagram.state \notin {"EC_DATAGRAM_SENT", "EC_DATAGRAM_QUEUED"}

(* C15: in every reachable state at most one of the four request            *)
(* references is non-null, and a reference is non-null exactly when the     *)
(* state machine is in the matching request state (all are null in idle     *)
(* and ready).                                                              *)
C15_OneReferenceMatchingState ==
    /\ Cardinality({k \in Kinds : Ref(k) # NULL}) <= 1
    /\ \A k \in Kinds : Ref(k) # NULL <=> fsm.state = MatchingState(k)

(* C16: at any time at most one request of the slave, over all four kinds,  *)
(* is BUSY, a BUSY request is the one the state machine references in the   *)
(* matching request state, and no request becomes BUSY while another one    *)
(* is BUSY.                                                                 *)
C16_OneBusyRequest ==
    /\ [](/\ \A r1, r2 \in Requests : Busy(r1) /\ Busy(r2) => r1 = r2
          /\ \A r \in Requests :
                 Busy(r) => /\ fsm.state = MatchingState(requests[r].kind)
                            /\ Ref(requests[r].kind) = r)
    /\ [][(\E r \in Requests : Busy(r)) =>
             \A r2 \in DOMAIN requests' :
                 (Alive(r2)' /\ requests'[r2].state = EC_INT_REQUEST_BUSY)
                 => (r2 \in Requests /\ Busy(r2))]_vars

\* A register request is started in the step that aborted an SDO request.
C16_Witness ==
    /\ step.op = "exec"
    /\ fsm.state = ec_fsm_slave_state_reg_request
    /\ \E r \in Requests : Busy(r) /\ requests[r].kind = "reg"
    /\ \E r \in Requests : /\ requests[r].kind = "sdo"
                            /\ requests[r].state = EC_INT_REQUEST_FAILURE

(* C17: exec() called while the datagram of the state machine is sent or    *)
(* queued changes nothing: the state, the request references, the request   *)
(* lists and the request states stay as they were, no wait queue is woken   *)
(* and no datagram is queued.                                               *)
C17_DelayedExecChangesNothing ==
    [][(/\ step'.op = "exec"
        /\ fsm_datagram.state \in {"EC_DATAGRAM_SENT", "EC_DATAGRAM_QUEUED"})
       => /\ fsm' = fsm
          /\ slave' = slave
          /\ requests' = requests
          /\ config_reg_requests' = config_reg_requests
          /\ fsm_datagram' = fsm_datagram
          /\ step'.woken = {}
          /\ step'.queued = 0]_vars

\* exec() was called while the datagram of a running transfer was sent and
\* another request was waiting.
C17_Witness ==
    /\ step.op = "exec"
    /\ fsm_datagram.state = "EC_DATAGRAM_SENT"
    /\ \E r \in Requests : Busy(r)
    /\ \E r \in Requests : requests[r].state = EC_INT_REQUEST_QUEUED

(* C18: in a ready step the lists are tried in the order SDO, register,     *)
(* FoE, SoE: when a request of a kind is pending at the step, no request    *)
(* of a kind of lower priority is dequeued, started or changed by it.       *)
KindOrder == <<"sdo", "reg", "foe", "soe">>

List(kind) ==
    CASE kind = "sdo" -> slave.sdo_requests
      [] kind = "reg" -> slave.reg_requests
      [] kind = "foe" -> slave.foe_requests
      [] kind = "soe" -> slave.soe_requests

Pending(kind) ==
    \/ List(kind) # <<>>
    \/ /\ kind = "reg"
       /\ slave.config # "NULL"
       /\ FirstQueued(requests, config_reg_requests) # NULL

KindUntouched(kind) ==
    /\ List(kind)' = List(kind)
    /\ \A r \in Requests :
          requests[r].kind = kind => requests'[r] = requests[r]

C18_StrictPriority ==
    [][ExecIn(ec_fsm_slave_state_ready) =>
          \A i, j \in 1..4 :
              (i < j /\ Pending(KindOrder[i])) => KindUntouched(KindOrder[j])]_vars

(* C19: every request that the state machine dequeues reaches SUCCESS or    *)
(* FAILURE, provided exec() keeps being called and the datagram and the     *)
(* sub-state-machine make progress; a dequeued request is never put back    *)
(* into its list or to QUEUED.                                              *)
Dequeued(r) ==
    /\ r \in Requests
    /\ ~requests[r].internal
    /\ \A i \in DOMAIN List(requests[r].kind) : List(requests[r].kind)[i] # r

Finished_request(r) ==
    /\ r \in Requests
    /\ requests[r].state \in {EC_INT_REQUEST_SUCCESS, EC_INT_REQUEST_FAILURE}

\* A dequeued request stays dequeued and a finished one finished, so that
\* every dequeued request finishes if, again and again, none is unfinished.
C19_DequeuedRequestFinishes ==
    /\ []<>(\A r \in Requests : Dequeued(r) => Finished_request(r))
    /\ [][\A r \in Requests :
             /\ Dequeued(r) =>
                   /\ Dequeued(r)'
                   /\ requests'[r].state # EC_INT_REQUEST_QUEUED
             /\ Finished_request(r) => requests'[r] = requests[r]]_vars

\* A transfer that needed a further exchange succeeded.
C19_Witness ==
    /\ step.op = "exec"
    /\ step.woken # {}
    /\ \E r \in Requests : /\ Dequeued(r)
                            /\ requests[r].kind # "reg"
                            /\ requests[r].state = EC_INT_REQUEST_SUCCESS

(* C20: the state machine starts in idle; exec() in idle dequeues and       *)
(* changes no request, however many are queued, and stays in idle; ready()  *)
(* moves an idle state machine to ready and changes nothing in ready or in  *)
(* a request state.                                                         *)
C20_IdleUntilReady ==
    /\ fsm.state = ec_fsm_slave_state_idle
    /\ [][(step'.op = "exec" /\ fsm.state = ec_fsm_slave_state_idle)
          => /\ fsm' = fsm
             /\ slave' = slave
             /\ requests' = requests
             /\ config_reg_requests' = config_reg_requests
             /\ step'.woken = {}
             /\ step'.queued = 0]_vars
    /\ [][step'.op = "ready"
          => /\ fsm' = IF fsm.state = ec_fsm_slave_state_idle
                       THEN [fsm EXCEPT !.state = ec_fsm_slave_state_ready]
                       ELSE fsm
             /\ slave' = slave
             /\ requests' = requests]_vars

\* exec() was called in idle with two requests queued.
C20_Witness ==
    /\ step.op = "exec"
    /\ fsm.state = ec_fsm_slave_state_idle
    /\ Cardinality({r \in Requests :
                       requests[r].state = EC_INT_REQUEST_QUEUED}) = 2

-----------------------------------------------------------------------------
(* Aborts and completions of the requests *)

\* The request is taken from its list, or found QUEUED in the list of the
\* slave configuration, by the transition.
TakenInStep(r) ==
    /\ requests[r].state = EC_INT_REQUEST_QUEUED
    /\ requests'[r].state # EC_INT_REQUEST_QUEUED

OwnQueue(kind) ==
    CASE kind = "sdo" -> "sdo_queue"
      [] kind = "reg" -> "reg_queue"
      [] kind = "foe" -> "foe_queue"
      [] kind = "soe" -> "soe_queue"

(* C21: for each of the four kinds, a request that is dequeued in a ready   *)
(* step while the AL state of the slave carries ACK_ERR ends in FAILURE,    *)
(* and the state machine is idle at the end of that exec() call and stays   *)
(* idle until ready() is called.                                            *)
C21_AckErrAbortLeavesIdle ==
    /\ [][(/\ ExecIn(ec_fsm_slave_state_ready)
            /\ HasAckErr(step'.current_state))
          => \A r \in Requests :
                 TakenInStep(r) =>
                     /\ requests'[r].state = EC_INT_REQUEST_FAILURE
                     /\ fsm'.state = ec_fsm_slave_state_idle]_vars
    /\ [][(fsm.state = ec_fsm_slave_state_idle /\ step'.op # "ready")
          => fsm'.state = ec_fsm_slave_state_idle]_vars

(* C22: an SDO or SoE request that is dequeued in a ready step while the    *)
(* slave is in INIT ends in FAILURE, and the state machine is idle at the   *)
(* end of that exec() call, whatever other requests are pending.            *)
C22_InitAbortLeavesIdle ==
    [][(/\ ExecIn(ec_fsm_slave_state_ready)
        /\ step'.current_state = EC_SLAVE_STATE_INIT)
       => \A r \in Requests :
              (TakenInStep(r) /\ requests[r].kind \in {"sdo", "soe"}) =>
                  /\ requests'[r].state = EC_INT_REQUEST_FAILURE
                  /\ fsm'.state = ec_fsm_slave_state_idle]_vars

(* C23: whenever a request reaches SUCCESS or FAILURE, at completion or at  *)
(* an abort, the call wakes the wait queue of the kind of that request.     *)
C23_OwnQueueWoken ==
    [][\A r \in Requests :
          (~Finished_request(r) /\ Finished_request(r)')
          => OwnQueue(requests[r].kind) \in step'.woken]_vars

(* C24: in a request state, when the step reports done, the request is      *)
(* SUCCESS or FAILURE, the reference of the state machine to it is null     *)
(* and the state machine is ready, for all four kinds.                      *)
StepDone(kind) == kind = "reg" \/ fsm.sub_left = 0

C24_DoneDropsReference ==
    [][\A k \in Kinds : \A r \in Requests :
          (/\ ExecIn(MatchingState(k))
           /\ StepDone(k)
           /\ Ref(k) = r)
          => /\ Finished_request(r)'
             /\ Ref(k)' = NULL
             /\ fsm'.state = ec_fsm_slave_state_ready]_vars

(* C28: a register request in progress ends in SUCCESS exactly when its     *)
(* datagram is received with working counter 1; a read request then gets    *)
(* the received bytes in its buffer, a write request keeps its buffer; in   *)
(* every other case the request ends in FAILURE with its buffer unchanged.  *)
C28_RegisterResult ==
    [][\A r \in Requests :
          (/\ ExecIn(ec_fsm_slave_state_reg_request)
           /\ fsm.reg_request = r
           /\ Busy(r))
          => LET ok == /\ fsm_datagram.state = "EC_DATAGRAM_RECEIVED"
                       /\ fsm_datagram.working_counter = 1
             IN  /\ requests'[r].state =
                        IF ok THEN EC_INT_REQUEST_SUCCESS
                        ELSE EC_INT_REQUEST_FAILURE
                 /\ requests'[r].data =
                        IF ok /\ requests[r].dir = EC_DIR_INPUT
                        THEN fsm_datagram.data
                        ELSE requests[r].data]_vars

C28_Witness ==
    /\ step.op = "exec"
    /\ "reg_queue" \in step.woken
    /\ fsm.state = ec_fsm_slave_state_ready
    /\ \E r \in Requests :
          /\ fsm.reg_request = r
          /\ requests[r].dir = EC_DIR_INPUT
          /\ requests[r].state = EC_INT_REQUEST_SUCCESS
          /\ requests[r].data = 1

(* C29: in the states sdo_request, foe_request and soe_request, when the    *)
(* transfer reports more work, the call queues the datagram exactly once,   *)
(* stays in the same state, keeps its reference and leaves the request      *)
(* BUSY.                                                                    *)
C29_MoreWorkRequeuesOnce ==
    [][\A k \in {"sdo", "foe", "soe"} : \A r \in Requests :
          (/\ ExecIn(MatchingState(k))
           /\ fsm.sub_left > 0
           /\ Ref(k) = r)
          => /\ step'.queued = 1
             /\ fsm_datagram'.state = "EC_DATAGRAM_QUEUED"
             /\ fsm'.state = fsm.state
             /\ Ref(k)' = r
             /\ requests'[r].state = EC_INT_REQUEST_BUSY
             /\ requests' = requests]_vars

C29_Witness ==
    /\ step.op = "exec"
    /\ step.current_state = EC_SLAVE_STATE_UNKNOWN
    /\ step.queued = 1
    /\ fsm.state = ec_fsm_slave_state_foe_request
    /\ fsm.foe_request \in Requests
    /\ requests[fsm.foe_request].state = EC_INT_REQUEST_BUSY

-----------------------------------------------------------------------------
(* The merge of main and backup data in process() *)

ProcessStep == last_op' \in {"process", "process_again"}

InputFmmus == {i \in Fmmus : fmmu_configs[i].dir = EC_DIR_INPUT}

\* The pair whose payload holds the window of the FMMU.
PairOf(i) == CHOOSE p \in Pairs : i \in FmmusOfPair(p)

\* The working counter of the pair of the FMMU equals the expected one.
PairWcComplete(i) ==
    ec_datagram_pair_process(PairOf(i))
        = datagram_pairs[PairOf(i)].expected_working_counter

\* The case in which the claims let the backup window replace the main one.
AdoptionCase(i) ==
    /\ i \in InputFmmus
    /\ main_data[i] = send_buffer[i]
    /\ backup_data[i] # send_buffer[i] \/ PairWcComplete(i)

(* C25: process() leaves the window of an input FMMU unchanged whenever the *)
(* main window differs from the staged send copy, whatever the backup       *)
(* bytes and the working counter of the pair are.                           *)
C25_MainWinsOnChange ==
    /\ [](pc = "finished" =>
            \A uninit \in UninitOffsets : \A i \in InputFmmus :
                main_data[i] # send_buffer[i]
                => i \notin ProcessResult(uninit).copied)
    /\ [][ProcessStep =>
            \A i \in InputFmmus :
                main_data[i] # send_buffer[i]
                => main_data'[i] = main_data[i]]_vars

C25_Witness ==
    /\ last_op = "process"
    /\ \E i \in InputFmmus :
          /\ main_data[i] # send_buffer[i]
          /\ backup_data[i] # main_data[i]
          /\ PairWcComplete(i)

(* C26: for an input FMMU whose main window equals the staged copy,         *)
(* process() copies the backup window over the main window exactly when the *)
(* backup window differs from the staged copy or the working counter of the *)
(* pair that holds the FMMU equals the expected working counter of that     *)
(* pair; after the copy the window of the image equals the backup bytes.    *)
C26_BackupAdoptedExactly ==
    /\ [](pc = "finished" =>
            \A uninit \in UninitOffsets : \A i \in InputFmmus :
                main_data[i] = send_buffer[i]
                => (i \in ProcessResult(uninit).copied <=> AdoptionCase(i)))
    /\ [][ProcessStep =>
            \A i \in InputFmmus :
                AdoptionCase(i) => main_data'[i] = backup_data[i]]_vars

C26_Witness ==
    /\ last_op = "process"
    /\ \E i \in InputFmmus :
          /\ datagrams[PairOf(i)].main.state = "EC_DATAGRAM_TIMED_OUT"
          /\ datagrams[PairOf(i)].backup.state = "EC_DATAGRAM_RECEIVED"
          /\ ~PairWcComplete(i)
          /\ backup_data[i] # send_buffer[i]
          /\ main_data[i] = backup_data[i]

(* C27: process() never modifies the bytes of an output FMMU, and leaves    *)
(* the window of an input FMMU unchanged when main and backup both equal    *)
(* the staged copy and the working counter of the pair differs from the     *)
(* expected one; only input windows in the adoption case are written.       *)
C27_OnlyAdoptedInputsWritten ==
    /\ [](pc = "finished" =>
            \A uninit \in UninitOffsets :
                ProcessResult(uninit).copied
                    \subseteq {i \in Fmmus : AdoptionCase(i)})
    /\ [][ProcessStep =>
            \A i \in Fmmus :
                /\ fmmu_configs[i].dir = EC_DIR_OUTPUT
                   => main_data'[i] = main_data[i]
                /\ (/\ i \in InputFmmus
                    /\ main_data[i] = send_buffer[i]
                    /\ backup_data[i] = send_buffer[i]
                    /\ ~PairWcComplete(i))
                   => main_data'[i] = main_data[i]
                /\ main_data'[i] # main_data[i] => AdoptionCase(i)]_vars

C27_Witness ==
    /\ last_op = "process"
    /\ \E i \in InputFmmus, o \in Fmmus \ InputFmmus :
          /\ main_data[o] # send_buffer[o]
          /\ main_data[o] # backup_data[o]
          /\ main_data[i] = send_buffer[i]
          /\ backup_data[i] = send_buffer[i]
          /\ ~PairWcComplete(i)

-----------------------------------------------------------------------------
(* The cut rule of finish() *)

\* The pair sizes the cut rule gives: the running pair is closed before the
\* first FMMU that would take the running size above EC_MAX_DATA_SIZE, and
\* that FMMU opens the next pair.
RECURSIVE CutSizes(_, _, _)
CutSizes(fmmus, i, running) ==
    IF i > Len(fmmus)
    THEN (IF running > 0 THEN <<running>> ELSE <<>>)
    ELSE IF running + fmmus[i].data_size > EC_MAX_DATA_SIZE
    THEN <<running>> \o CutSizes(fmmus, i + 1, fmmus[i].data_size)
    ELSE CutSizes(fmmus, i + 1, running + fmmus[i].data_size)

\* The first FMMU of each pair under the same rule.
RECURSIVE CutFirsts(_, _, _, _)
CutFirsts(fmmus, i, running, first) ==
    IF i > Len(fmmus)
    THEN (IF running > 0 THEN <<first>> ELSE <<>>)
    ELSE IF running + fmmus[i].data_size > EC_MAX_DATA_SIZE
    THEN <<first>> \o CutFirsts(fmmus, i + 1, fmmus[i].data_size, i)
    ELSE CutFirsts(fmmus, i + 1, running + fmmus[i].data_size, first)

RECURSIVE SumSeq(_)
SumSeq(s) == IF s = <<>> THEN 0 ELSE Head(s) + SumSeq(Tail(s))

(* C30: finish() closes the current pair exactly before the first FMMU      *)
(* whose size would take the running pair size above EC_MAX_DATA_SIZE (an   *)
(* FMMU that makes the running size equal to the maximum stays in the       *)
(* pair); that FMMU is the first FMMU of the next pair, the used counts of  *)
(* the next pair start from zero, and the logical address of pair k is the  *)
(* base address plus the sizes of the pairs before k.                       *)
C30_CutBeforeOverflow ==
    Finished =>
        LET sizes == CutSizes(fmmu_configs, 1, 0)
            firsts == CutFirsts(fmmu_configs, 1, 0, 1)
        IN  /\ Len(datagram_pairs) = Len(sizes)
            /\ \A p \in Pairs :
                  /\ datagram_pairs[p].data_size = sizes[p]
                  /\ datagram_pairs[p].address =
                         logical_base_address + SumSeq(SubSeq(sizes, 1, p - 1))
                  /\ p > 1 =>
                         fmmu_configs[firsts[p]].logical_start_address
                             = datagram_pairs[p].address
                  /\ \A d \in Directions :
                         datagram_pairs[p].used[d] <=
                             Cardinality({j \in firsts[p]..Len(fmmu_configs) :
                                             fmmu_configs[j].dir = d})

\* EC_MAX_DATA_SIZE + 1 FMMUs of one byte give a full pair and a pair of
\* one byte (twenty FMMUs of 100 bytes with 1500: 1500 and 500 bytes).
C30_Witness ==
    /\ Finished
    /\ Len(fmmu_configs) = EC_MAX_DATA_SIZE + 1
    /\ \A i \in Fmmus : fmmu_configs[i].data_size = 1
    /\ Len(datagram_pairs) = 2
    /\ datagram_pairs[1].data_size = EC_MAX_DATA_SIZE
    /\ datagram_pairs[2].data_size = 1
    /\ datagram_pairs[2].address = datagram_pairs[1].address + EC_MAX_DATA_SIZE
    /\ datagram_pairs[2].used # datagram_pairs[1].used

====
